---- MODULE Spec2Model ----
(***************************************************************************)
(* A model of the listings backend (src/Backend/index.js) and of the       *)
(* Payments admin view (src/unnamed/part_000).                             *)
(*                                                                         *)
(* JavaScript strings are sequences of one-character strings, so that      *)
(* toLowerCase, includes, path.extname, RegExp.test and parseInt are       *)
(* computed character by character.  JavaScript values that may be a       *)
(* string, a number, null, undefined or NaN are tagged records.            *)
(***************************************************************************)
EXTENDS Integers, Sequences, FiniteSets, TLC

VARIABLES
    \* ---- backend (src/Backend/index.js)
    listings,       \* the in-memory array `listings`
    requests,       \* POST /listings requests: their state, body and files
    nArrived,       \* number of POST requests received so far
    handled,        \* request numbers in the order their handlers ran
    lastGet,        \* body of the last GET /listings response
    \* ---- Payments view (src/unnamed/part_000)
    payments,       \* useState<Payment[]>([])
    searchTerm,     \* useState("")
    sortColumn,     \* useState<string | null>(null)
    sortDirection,  \* useState<"asc" | "desc">("asc")
    isLoading,      \* useState(true)
    fetchState,     \* position of the fetchPayments effect
    response,       \* what axios.get settled with
    toasts,         \* number of toast.error calls
    activeTab,      \* the tab the Tabs component shows
    clicks          \* the column headers clicked so far, in order

backendVars == <<listings, requests, nArrived, handled, lastGet>>
viewVars == <<payments, searchTerm, sortColumn, sortDirection, isLoading,
              fetchState, response, toasts, activeTab, clicks>>
vars == <<listings, requests, nArrived, handled, lastGet,
          payments, searchTerm, sortColumn, sortDirection, isLoading,
          fetchState, response, toasts, activeTab, clicks>>

\* ------------------------------------------------------------------------
\* Bounds of the model
\* ------------------------------------------------------------------------
MaxRequests == 2
MaxClicks == 3

\* ------------------------------------------------------------------------
\* JavaScript values
\* ------------------------------------------------------------------------
Str(s) == [t |-> "string", v |-> s]
Num(n) == [t |-> "number", v |-> n]
Null == [t |-> "null"]
Undefined == [t |-> "undefined"]
NaN == [t |-> "NaN"]

\* JavaScript truthiness of a tagged value: null, undefined, NaN, 0 and the
\* empty string are falsy.
Truthy(x) ==
    CASE x.t = "string" -> x.v # <<>>
      [] x.t = "number" -> x.v # 0
      [] OTHER -> FALSE

\* a || b
OrElse(a, b) == IF Truthy(a) THEN a ELSE b

\* ------------------------------------------------------------------------
\* Strings
\* ------------------------------------------------------------------------
UpperCase == <<"A","B","C","D","E","F","G","H","I","J","K","L","M",
               "N","O","P","Q","R","S","T","U","V","W","X","Y","Z">>
LowerCase == <<"a","b","c","d","e","f","g","h","i","j","k","l","m",
               "n","o","p","q","r","s","t","u","v","w","x","y","z">>
Digits == <<"0","1","2","3","4","5","6","7","8","9">>

IndexIn(c, seq) ==
    IF \E i \in 1..Len(seq) : seq[i] = c
    THEN CHOOSE i \in 1..Len(seq) : seq[i] = c
    ELSE 0

\* The lower-case letter of each upper-case letter.
LowerOfUpper ==
    [c \in {UpperCase[i] : i \in 1..Len(UpperCase)} |-> LowerCase[IndexIn(c, UpperCase)]]

LowerChar(c) == IF c \in DOMAIN LowerOfUpper THEN LowerOfUpper[c] ELSE c

\* String.prototype.toLowerCase
ToLowerCase(s) == [i \in 1..Len(s) |-> LowerChar(s[i])]

\* String.prototype.includes
Includes(s, sub) ==
    \E i \in 1..(Len(s) - Len(sub) + 1) : SubSeq(s, i, i + Len(sub) - 1) = sub

LastIndexOf(s, c) ==
    IF \E i \in 1..Len(s) : s[i] = c
    THEN CHOOSE i \in 1..Len(s) : s[i] = c /\ \A j \in (i+1)..Len(s) : s[j] # c
    ELSE 0

\* path.extname: from the last "." of the last path segment to the end; empty
\* when there is no "." or when the segment starts with its only ".".
ExtName(name) ==
    LET slash == LastIndexOf(name, "/")
        base == SubSeq(name, slash + 1, Len(name))
        dot == LastIndexOf(base, ".")
    IN IF dot <= 1 THEN <<>> ELSE SubSeq(base, dot, Len(base))

\* ------------------------------------------------------------------------
\* parseInt (radix omitted)
\* ------------------------------------------------------------------------
HexDigits == <<"0","1","2","3","4","5","6","7","8","9","a","b","c","d","e","f">>
WhiteSpace == {" ", "\t", "\n"}

\* The value of digit c in the radix, or -1.
DigitValue(c, radix) ==
    LET i == IndexIn(LowerChar(c), HexDigits)
    IN IF i > 0 /\ i - 1 < radix THEN i - 1 ELSE -1

RECURSIVE SkipWhiteSpace(_)
SkipWhiteSpace(s) ==
    IF s # <<>> /\ Head(s) \in WhiteSpace THEN SkipWhiteSpace(Tail(s)) ELSE s

\* The longest prefix of s made of digits of the radix, as a number; acc is
\* the value so far and seen tells whether a digit was read.
RECURSIVE ParseDigits(_, _, _, _)
ParseDigits(s, radix, acc, seen) ==
    IF s # <<>> /\ DigitValue(Head(s), radix) >= 0
    THEN ParseDigits(Tail(s), radix, acc * radix + DigitValue(Head(s), radix), TRUE)
    ELSE IF seen THEN Num(acc) ELSE NaN

ParseInt(x) ==
    IF x.t # "string" THEN NaN  \* String(undefined) = "undefined": no digits
    ELSE
      LET s0 == SkipWhiteSpace(x.v)
          neg == s0 # <<>> /\ Head(s0) = "-"
          s1 == IF s0 # <<>> /\ Head(s0) \in {"-", "+"} THEN Tail(s0) ELSE s0
          hex == Len(s1) >= 2 /\ s1[1] = "0" /\ s1[2] \in {"x", "X"}
          s2 == IF hex THEN SubSeq(s1, 3, Len(s1)) ELSE s1
          n == ParseDigits(s2, IF hex THEN 16 ELSE 10, 0, FALSE)
      IN IF n.t = "NaN" THEN NaN ELSE Num(IF neg THEN 0 - n.v ELSE n.v)

\* ------------------------------------------------------------------------
\* Upload handler: multer({storage, limits, fileFilter}).array('images', 5)
\* ------------------------------------------------------------------------
MaxFiles == 5
FileSizeLimit == 5 * 1024 * 1024

\* /jpeg|jpg|png/.test(s): the pattern is not anchored
FiletypesTest(s) ==
    \/ Includes(s, <<"j","p","e","g">>)
    \/ Includes(s, <<"j","p","g">>)
    \/ Includes(s, <<"p","n","g">>)

\* fileFilter: TRUE when the file is accepted
FileFilterAccepts(file) ==
    LET extname == FiletypesTest(ToLowerCase(ExtName(file.originalname)))
        mimetype == FiletypesTest(file.mimetype)
    IN extname /\ mimetype

\* The files are taken in order; the first one that is one too many, that the
\* filter refuses or that is too large fails the request.
RECURSIVE UploadFrom(_, _)
UploadFrom(files, i) ==
    IF i > Len(files) THEN "ok"
    ELSE IF i > MaxFiles THEN "LIMIT_UNEXPECTED_FILE"
    ELSE IF ~FileFilterAccepts(files[i]) THEN "Only JPEG/PNG images are allowed"
    ELSE IF files[i].size > FileSizeLimit THEN "LIMIT_FILE_SIZE"
    ELSE UploadFrom(files, i + 1)

UploadOutcome(files) == UploadFrom(files, 1)

\* ------------------------------------------------------------------------
\* Requests the model sends to POST /listings
\* ------------------------------------------------------------------------
JpgFile == [originalname |-> <<"a",".","j","p","g">>,
            mimetype |-> <<"i","m","a","g","e","/","j","p","e","g">>,
            size |-> 1024]
PngFile == [originalname |-> <<"b",".","P","N","G">>,
            mimetype |-> <<"i","m","a","g","e","/","p","n","g">>,
            size |-> 2048]
GifFile == [originalname |-> <<"c",".","g","i","f">>,
            mimetype |-> <<"i","m","a","g","e","/","g","i","f">>,
            size |-> 1024]
\* a GIF renamed to .png: the declared media type is still image/gif
RenamedGifFile == [originalname |-> <<"f",".","p","n","g">>,
                   mimetype |-> <<"i","m","a","g","e","/","g","i","f">>,
                   size |-> 1024]
\* an animated PNG, extension .apng and media type image/apng
ApngFile == [originalname |-> <<"d",".","a","p","n","g">>,
             mimetype |-> <<"i","m","a","g","e","/","a","p","n","g">>,
             size |-> 1024]
BigFile == [originalname |-> <<"e",".","p","n","g">>,
            mimetype |-> <<"i","m","a","g","e","/","p","n","g">>,
            size |-> FileSizeLimit + 1]

FileLists ==
    { <<>>,
      <<JpgFile, PngFile>>,
      <<JpgFile, GifFile>>,
      <<GifFile, JpgFile>>,
      <<JpgFile, RenamedGifFile>>,
      <<ApngFile>>,
      <<BigFile>>,
      <<JpgFile, JpgFile, JpgFile, JpgFile, JpgFile, JpgFile>> }

\* req.body: the text fields of the multipart form; an absent field is undefined
Body(title, age, weight, price, forEid) ==
    [title |-> title, type |-> Str(<<"c","o","w">>), breed |-> Undefined,
     age |-> age, weight |-> weight, price |-> price,
     location |-> Str(<<"L","H","R">>), description |-> Undefined,
     forEid |-> forEid]

Bodies ==
    { Body(Str(<<"A">>), Str(<<"0">>), Str(<<"-","3">>), Str(<<"7">>),
           Str(<<"t","r","u","e">>)),
      Body(Str(<<"B">>), Str(<<"a","b","c">>), Str(<<"1","2","k","g">>),
           Str(<<" ","4","2">>), Undefined),
      Body(Str(<<"C">>), Undefined, Str(<<>>), Str(<<"0","x","1","f">>),
           Str(<<"T","R","U","E">>)) }

Requests == 1..MaxRequests
IdleRequest == [state |-> "idle"]

\* ------------------------------------------------------------------------
\* Listings API
\* ------------------------------------------------------------------------
\* const newListing = {...}: the record the handler of request r builds.  Its
\* images are the stored files' names (the URL adds "/uploads/" and the time
\* of the upload); the fields listed and rating read no request data.
ListingWithId(id, r) ==
    [id |-> id,
     title |-> requests[r].body.title,
     type |-> requests[r].body.type,
     breed |-> requests[r].body.breed,
     age |-> OrElse(ParseInt(requests[r].body.age), Undefined),
     weight |-> OrElse(ParseInt(requests[r].body.weight), Undefined),
     price |-> OrElse(ParseInt(requests[r].body.price), Undefined),
     location |-> requests[r].body.location,
     description |-> requests[r].body.description,
     images |-> [i \in 1..Len(requests[r].files) |-> requests[r].files[i].originalname],
     status |-> "active",
     forEid |-> (requests[r].body.forEid = Str(<<"t","r","u","e">>))]

\* Mutants of NewListing: the identifier without the + 1, and the identifier
\* taken from the request's arrival number.
NewListingIdFromLength(r) == ListingWithId(Len(listings), r)
NewListingIdFromArrival(r) == ListingWithId(r, r)

\* id: listings.length + 1
NewListing(r) == ListingWithId(Len(listings) + 1, r)

\* app.get('/listings'): res.json(listings)
GetListings ==
    /\ lastGet' = [status |-> 200, body |-> listings]
    /\ UNCHANGED <<listings, requests, nArrived, handled>>
    /\ UNCHANGED viewVars

\* A POST /listings request arrives and multer starts reading its parts.
PostArrives(body, files) ==
    /\ nArrived < MaxRequests
    /\ nArrived' = nArrived + 1
    /\ requests' = [requests EXCEPT ![nArrived + 1] =
                       [state |-> "uploading", body |-> body, files |-> files]]
    /\ UNCHANGED <<listings, handled, lastGet>>
    /\ UNCHANGED viewVars

\* The upload of request r ends with an error: multer passes it to next(err),
\* the route handler is skipped and Express answers with its error response.
UploadFails(r) ==
    /\ requests[r].state = "uploading"
    /\ UploadOutcome(requests[r].files) # "ok"
    /\ requests' = [requests EXCEPT ![r] =
                       [state |-> "error", status |-> 500,
                        message |-> UploadOutcome(requests[r].files)]]
    /\ UNCHANGED <<listings, nArrived, handled, lastGet>>
    /\ UNCHANGED viewVars

\* The upload of request r is complete and the route handler runs, from its
\* first line to res.status(201).json(newListing), as one step of the event loop.
PostListings(r) ==
    /\ requests[r].state = "uploading"
    /\ UploadOutcome(requests[r].files) = "ok"
    /\ listings' = Append(listings, NewListing(r))
    /\ handled' = Append(handled, r)
    /\ requests' = [requests EXCEPT ![r] =
                       [state |-> "created", status |-> 201, json |-> NewListing(r)]]
    /\ UNCHANGED <<nArrived, lastGet>>
    /\ UNCHANGED viewVars

NextBackend ==
    \/ GetListings
    \/ \E body \in Bodies, files \in FileLists : PostArrives(body, files)
    \/ \E r \in Requests : UploadFails(r)
    \/ \E r \in Requests : PostListings(r)

\* ------------------------------------------------------------------------
\* Payments view: helpers
\* ------------------------------------------------------------------------
Arr(a) == [t |-> "array", v |-> a]

\* Truthiness with arrays and objects, which are always truthy.
TruthyValue(x) == IF x.t \in {"array", "object"} THEN TRUE ELSE Truthy(x)
Or(a, b) == IF TruthyValue(a) THEN a ELSE b

\* The decimal digits of a natural number, as template literals print it.
RECURSIVE NumToString(_)
NumToString(n) ==
    IF n < 10 THEN <<Digits[n + 1]>>
    ELSE NumToString(n \div 10) \o <<Digits[(n % 10) + 1]>>

\* `${x}` for a number or a string
TemplateString(x) == IF x.t = "number" THEN NumToString(x.v) ELSE x.v

\* String.prototype.localeCompare on the characters the model uses: the
\* collation order puts blank and punctuation before digits before letters,
\* compares letters without their case first, and on a tie puts the lower-case
\* letter first.
CollationAlphabet ==
    <<" ", "-", ":">> \o Digits \o LowerCase

CollationRank ==
    [c \in {CollationAlphabet[i] : i \in 1..Len(CollationAlphabet)} |->
        IndexIn(c, CollationAlphabet)]

PrimaryKey(s) ==
    [i \in 1..Len(s) |-> IF LowerChar(s[i]) \in DOMAIN CollationRank
                          THEN CollationRank[LowerChar(s[i])] ELSE 0]
TertiaryKey(s) == [i \in 1..Len(s) |-> IF s[i] \in DOMAIN LowerOfUpper THEN 1 ELSE 0]

RECURSIVE LexCompare(_, _)
LexCompare(k1, k2) ==
    IF k1 = <<>> /\ k2 = <<>> THEN 0
    ELSE IF k1 = <<>> THEN -1
    ELSE IF k2 = <<>> THEN 1
    ELSE IF Head(k1) < Head(k2) THEN -1
    ELSE IF Head(k1) > Head(k2) THEN 1
    ELSE LexCompare(Tail(k1), Tail(k2))

LocaleCompare(a, b) ==
    IF LexCompare(PrimaryKey(a), PrimaryKey(b)) # 0
    THEN LexCompare(PrimaryKey(a), PrimaryKey(b))
    ELSE LexCompare(TertiaryKey(a), TertiaryKey(b))

\* new Date("YYYY-MM-DD").getTime(), counted in days from 1970-01-01 UTC (the
\* days-from-civil computation of the proleptic Gregorian calendar).  The
\* milliseconds are 86,400,000 times this; the comparator reads only the sign
\* of a difference of two of them, which the common factor does not change.
DigitsValue(s) == ParseDigits(s, 10, 0, FALSE).v
DaysFromCivil(y0, m, d) ==
    LET y == IF m <= 2 THEN y0 - 1 ELSE y0
        era == y \div 400
        yoe == y - era * 400
        doy == (153 * (IF m > 2 THEN m - 3 ELSE m + 9) + 2) \div 5 + d - 1
        doe == yoe * 365 + yoe \div 4 - yoe \div 100 + doy
    IN era * 146097 + doe - 719468
DateGetTime(s) ==
    DaysFromCivil(DigitsValue(SubSeq(s, 1, 4)), DigitsValue(SubSeq(s, 6, 7)),
                  DigitsValue(SubSeq(s, 9, 10)))

\* ------------------------------------------------------------------------
\* Payments view: what GET /payment/admin/all may answer
\* ------------------------------------------------------------------------
Order(id, orderId, buyer, seller, buyerId, total, method, status, date) ==
    [id |-> id, orderId |-> orderId, buyer |-> buyer, seller |-> seller,
     buyerId |-> buyerId, total |-> total, subtotal |-> total, tax |-> 0,
     paymentMethod |-> method, paymentDetails |-> Null, status |-> status,
     date |-> date, items |-> Undefined]

\* the two records of the specification's examples
OrderA == Order(<<"1">>, <<"O","R","D","-","1">>, Str(<<"A">>), Str(<<"S">>), Num(1),
                100, <<"b","a","n","k">>, <<"p","e","n","d","i","n","g">>,
                Str(<<"2","0","2","4","-","0","3","-","0","1">>))
OrderB == Order(<<"2">>, <<"O","R","D","-","2">>, Str(<<"B">>), Str(<<"S">>), Num(2),
                50, <<"b","a","n","k">>, <<"c","o","m","p","l","e","t","e","d">>,
                Str(<<"2","0","2","4","-","0","2","-","2","9">>))
OrderBob == Order(<<"3">>, <<"O","R","D","-","A","1">>, Str(<<"b","o","b">>),
                  Str(<<"Z","e","d">>), Num(7), 100, <<"b","a","n","k">>,
                  <<"p","e","n","d","i","n","g">>,
                  Str(<<"2","0","2","4","-","0","3","-","0","1">>))
OrderAlice == Order(<<"4">>, <<"O","R","D","-","2">>, Str(<<"A","l","i","c","e">>),
                    Null, Num(3), 50, <<"S","t","r","i","p","e">>,
                    <<"C","o","m","p","l","e","t","e","d">>, Null)
\* no buyer, no seller, no buyer identifier, and a status that has no tab
OrderAnon == Order(<<"5">>, <<"O","R","D","-","3">>, Null, Null, Null, 75,
                   <<"c","a","s","h">>, <<"r","e","f","u","n","d","e","d">>,
                   Str(<<"2","0","2","3","-","1","2","-","3","1">>))
OrderTwelve == Order(<<"6">>, <<"O","R","D","-","4">>, Str(<<>>), Null, Num(12), 50,
                     <<"b","a","n","k">>, <<"C","A","N","C","E","L","L","E","D">>,
                     Null)

\* response.data: arrays of orders, and a body that is not an array
ResponseBodies ==
    { Arr(<<>>),
      Arr(<<OrderA, OrderB>>),
      Arr(<<OrderBob, OrderAlice, OrderAnon>>),
      Arr(<<OrderAnon, OrderTwelve, OrderAlice>>),
      Str(<<"o","o","p","s">>) }

SearchTerms ==
    { <<>>, <<"A">>, <<"a","l","i">>, <<"o","r","d","-","A">>,
      <<"U","n","k","n","o","w","n">>, <<"z","z">> }

Columns == {"buyer", "seller", "amount", "status", "date"}

AllPaymentsTab == <<"a","l","l","-","p","a","y","m","e","n","t","s">>
CompletedTab == <<"c","o","m","p","l","e","t","e","d">>
PendingTab == <<"p","e","n","d","i","n","g">>
CancelledTab == <<"c","a","n","c","e","l","l","e","d">>
Tabs == {AllPaymentsTab, CompletedTab, PendingTab, CancelledTab}

\* ------------------------------------------------------------------------
\* Payments view: fetch and transformation
\* ------------------------------------------------------------------------
\* response.data.map((order) => ({...}))
TransformOrder(order) ==
    [id |-> order.id,
     orderId |-> order.orderId,
     buyer |-> Or(order.buyer,
                  Str(<<"B","u","y","e","r"," ","I","D",":"," ">> \o
                      TemplateString(Or(order.buyerId, Str(<<"U","n","k","n","o","w","n">>))))),
     seller |-> Or(order.seller,
                   Str(<<"U","n","k","n","o","w","n"," ","S","e","l","l","e","r">>)),
     buyerId |-> order.buyerId,
     amount |-> order.total,
     total |-> order.total,
     subtotal |-> order.subtotal,
     tax |-> order.tax,
     method |-> order.paymentMethod,
     paymentMethod |-> order.paymentMethod,
     paymentDetails |-> order.paymentDetails,
     status |-> order.status,
     date |-> order.date,
     items |-> Or(order.items, Arr(<<>>))]

TransformedPayments(data) == [i \in 1..Len(data) |-> TransformOrder(data[i])]

\* useEffect(() => { fetchPayments() }, []): the effect runs once after the
\* first render, up to the await of axios.get.
FetchPayments ==
    /\ fetchState = "mounting"
    /\ isLoading' = TRUE
    /\ fetchState' = "pending"
    /\ UNCHANGED <<payments, searchTerm, sortColumn, sortDirection, response,
                   toasts, activeTab, clicks>>
    /\ UNCHANGED backendVars

\* The request is answered: the promise of axios.get is fulfilled.
AxiosFulfils(data) ==
    /\ fetchState = "pending"
    /\ response' = [kind |-> "fulfilled", data |-> data]
    /\ fetchState' = "fulfilled"
    /\ UNCHANGED <<payments, searchTerm, sortColumn, sortDirection, isLoading,
                   toasts, activeTab, clicks>>
    /\ UNCHANGED backendVars

\* The request fails: the promise of axios.get is rejected.
AxiosRejects ==
    /\ fetchState = "pending"
    /\ response' = [kind |-> "rejected"]
    /\ fetchState' = "rejected"
    /\ UNCHANGED <<payments, searchTerm, sortColumn, sortDirection, isLoading,
                   toasts, activeTab, clicks>>
    /\ UNCHANGED backendVars

\* fetchPayments resumes after the await with the response: the try block,
\* the catch block when response.data has no map method, and the finally block.
FetchResumes ==
    /\ fetchState = "fulfilled"
    /\ IF response.data.t = "array"
       THEN /\ payments' = TransformedPayments(response.data.v)
            /\ toasts' = toasts
       ELSE /\ payments' = payments
            /\ toasts' = toasts + 1
    /\ isLoading' = FALSE
    /\ fetchState' = "done"
    /\ UNCHANGED <<searchTerm, sortColumn, sortDirection, response, activeTab, clicks>>
    /\ UNCHANGED backendVars

\* Mutant of FetchCatches: the catch block without the finally block.
FetchCatchesNoFinally ==
    /\ fetchState = "rejected"
    /\ toasts' = toasts + 1
    /\ fetchState' = "done"
    /\ UNCHANGED <<payments, searchTerm, sortColumn, sortDirection, isLoading,
                   response, activeTab, clicks>>
    /\ UNCHANGED backendVars

\* fetchPayments resumes after the await with the rejection: the catch block
\* and the finally block.
FetchCatches ==
    /\ fetchState = "rejected"
    /\ toasts' = toasts + 1
    /\ isLoading' = FALSE
    /\ fetchState' = "done"
    /\ UNCHANGED <<payments, searchTerm, sortColumn, sortDirection, response,
                   activeTab, clicks>>
    /\ UNCHANGED backendVars

\* ------------------------------------------------------------------------
\* Payments view: derived lists (computed at every render)
\* ------------------------------------------------------------------------
\* The predicate of payments.filter at lines 88-93, for search term `term`.
SearchMatches(payment, term) ==
    \/ (TruthyValue(payment.buyer)
          /\ Includes(ToLowerCase(payment.buyer.v), ToLowerCase(term)))
    \/ (TruthyValue(payment.seller)
          /\ Includes(ToLowerCase(payment.seller.v), ToLowerCase(term)))
    \/ Includes(ToLowerCase(payment.orderId), ToLowerCase(term))
    \/ Includes(ToLowerCase(payment.paymentMethod), ToLowerCase(term))

\* Mutant of filteredPayments: the term is not lower-cased.
SearchMatchesTermAsTyped(payment) ==
    \/ (TruthyValue(payment.buyer) /\ Includes(ToLowerCase(payment.buyer.v), searchTerm))
    \/ (TruthyValue(payment.seller) /\ Includes(ToLowerCase(payment.seller.v), searchTerm))
    \/ Includes(ToLowerCase(payment.orderId), searchTerm)
    \/ Includes(ToLowerCase(payment.paymentMethod), searchTerm)
filteredPaymentsTermAsTyped == SelectSeq(payments, SearchMatchesTermAsTyped)

SearchMatchesTerm(payment) == SearchMatches(payment, searchTerm)
filteredPayments == SelectSeq(payments, SearchMatchesTerm)

\* The comparator of lines 95-114.
StringOrEmpty(x) == Or(x, Str(<<>>)).v
Direction == IF sortDirection = "asc" THEN 1 ELSE -1
Compare(a, b) ==
    IF sortColumn = "null" THEN 0
    ELSE CASE sortColumn = "date" ->
                Direction * ((IF TruthyValue(a.date) THEN DateGetTime(a.date.v) ELSE 0)
                             - (IF TruthyValue(b.date) THEN DateGetTime(b.date.v) ELSE 0))
           [] sortColumn = "amount" -> Direction * (a.amount - b.amount)
           [] sortColumn = "buyer" ->
                Direction * LocaleCompare(StringOrEmpty(a.buyer), StringOrEmpty(b.buyer))
           [] sortColumn = "seller" ->
                Direction * LocaleCompare(StringOrEmpty(a.seller), StringOrEmpty(b.seller))
           [] sortColumn = "status" -> Direction * LocaleCompare(a.status, b.status)
           [] OTHER -> 0

\* Array.prototype.sort with the comparator: a stable sort.
RECURSIVE InsertInOrder(_, _)
InsertInOrder(sorted, x) ==
    IF sorted = <<>> \/ Compare(sorted[Len(sorted)], x) <= 0
    THEN Append(sorted, x)
    ELSE Append(InsertInOrder(SubSeq(sorted, 1, Len(sorted) - 1), x), sorted[Len(sorted)])

RECURSIVE ArraySort(_)
ArraySort(a) ==
    IF a = <<>> THEN <<>>
    ELSE InsertInOrder(ArraySort(SubSeq(a, 1, Len(a) - 1)), a[Len(a)])

\* [...filteredPayments].sort(...)
sortedPayments == ArraySort(filteredPayments)

\* Mutant of filterPaymentsByStatus: the statuses are compared as written.
filterPaymentsByStatusAsWritten(status) ==
    IF status = AllPaymentsTab THEN sortedPayments
    ELSE SelectSeq(sortedPayments, LAMBDA payment : payment.status = status)

filterPaymentsByStatus(status) ==
    IF status = AllPaymentsTab THEN sortedPayments
    ELSE SelectSeq(sortedPayments,
                   LAMBDA payment : ToLowerCase(payment.status) = ToLowerCase(status))

\* Mutant of TabCount: the counts are taken from the searched list.
TabCountOfSearched(tab) ==
    IF tab = AllPaymentsTab THEN Len(filteredPayments)
    ELSE Len(SelectSeq(filteredPayments, LAMBDA p : ToLowerCase(p.status) = tab))

\* The count a tab's trigger shows (lines 208-211).
TabCount(tab) ==
    IF tab = AllPaymentsTab THEN Len(payments)
    ELSE Len(SelectSeq(payments, LAMBDA p : ToLowerCase(p.status) = tab))

\* The rows of a tab's table: the table exists when payments is not empty
\* (line 197) and the view is not loading (line 158).
DisplayedRows(tab) ==
    IF isLoading \/ payments = <<>> THEN <<>> ELSE filterPaymentsByStatus(tab)

\* ------------------------------------------------------------------------
\* Payments view: the user's actions
\* ------------------------------------------------------------------------
\* Mutant of SetSearchTerm: the searched list is stored over the fetched one.
SetSearchTermStoringResult(term) ==
    /\ ~isLoading
    /\ searchTerm' = term
    /\ payments' = SelectSeq(payments, LAMBDA p : SearchMatches(p, term))
    /\ UNCHANGED <<sortColumn, sortDirection, isLoading, fetchState,
                   response, toasts, activeTab, clicks>>
    /\ UNCHANGED backendVars

\* onChange of the search input (line 186); the input exists once loading ended.
SetSearchTerm(term) ==
    /\ ~isLoading
    /\ searchTerm' = term
    /\ UNCHANGED <<payments, sortColumn, sortDirection, isLoading, fetchState,
                   response, toasts, activeTab, clicks>>
    /\ UNCHANGED backendVars

\* Mutant of handleSort: a new column keeps the direction.
handleSortKeepingDirection(column) ==
    /\ ~isLoading /\ payments # <<>>
    /\ Len(clicks) < MaxClicks
    /\ IF sortColumn = column
       THEN /\ sortDirection' = (IF sortDirection = "asc" THEN "desc" ELSE "asc")
            /\ sortColumn' = sortColumn
       ELSE /\ sortColumn' = column
            /\ sortDirection' = sortDirection
    /\ clicks' = Append(clicks, column)
    /\ UNCHANGED <<payments, searchTerm, isLoading, fetchState, response,
                   toasts, activeTab>>
    /\ UNCHANGED backendVars

\* A click on a column header (lines 221-255); the headers exist when the
\* table does.
handleSort(column) ==
    /\ ~isLoading /\ payments # <<>>
    /\ Len(clicks) < MaxClicks
    /\ IF sortColumn = column
       THEN /\ sortDirection' = (IF sortDirection = "asc" THEN "desc" ELSE "asc")
            /\ sortColumn' = sortColumn
       ELSE /\ sortColumn' = column
            /\ sortDirection' = "asc"
    /\ clicks' = Append(clicks, column)
    /\ UNCHANGED <<payments, searchTerm, isLoading, fetchState, response,
                   toasts, activeTab>>
    /\ UNCHANGED backendVars

\* A click on a tab trigger (lines 207-212).
SelectTab(tab) ==
    /\ ~isLoading /\ payments # <<>>
    /\ activeTab' = tab
    /\ UNCHANGED <<payments, searchTerm, sortColumn, sortDirection, isLoading,
                   fetchState, response, toasts, clicks>>
    /\ UNCHANGED backendVars

\* ------------------------------------------------------------------------
\* Specifications
\* ------------------------------------------------------------------------
\* The server has just started and the view has rendered for the first time
\* (useState's initial values), its effect not yet run.
Init ==
    /\ listings = <<>>
    /\ requests = [r \in Requests |-> IdleRequest]
    /\ nArrived = 0
    /\ handled = <<>>
    /\ lastGet = [status |-> 0]
    /\ payments = <<>>
    /\ searchTerm = <<>>
    /\ sortColumn = "null"
    /\ sortDirection = "asc"
    /\ isLoading = TRUE
    /\ fetchState = "mounting"
    /\ response = [kind |-> "none"]
    /\ toasts = 0
    /\ activeTab = AllPaymentsTab
    /\ clicks = <<>>

NextView ==
    \/ FetchPayments
    \/ \E data \in ResponseBodies : AxiosFulfils(data)
    \/ AxiosRejects
    \/ FetchResumes
    \/ FetchCatches
    \/ \E term \in SearchTerms : SetSearchTerm(term)
    \/ \E column \in Columns : handleSort(column)
    \/ \E tab \in Tabs : SelectTab(tab)

\* The listings backend alone; the view stays as constructed.
SpecListings == Init /\ [][NextBackend]_vars

\* The Payments view alone; the backend stays as started.
SpecPayments == Init /\ [][NextView]_vars

\* The same, with the event loop running every continuation of fetchPayments
\* that is ready.
FairSpecPayments ==
    SpecPayments /\ WF_vars(FetchPayments) /\ WF_vars(FetchResumes) /\ WF_vars(FetchCatches)

\* ------------------------------------------------------------------------
\* Properties of the listings backend (checked under SpecListings)
\* ------------------------------------------------------------------------

\* C1: after any sequence of GET and POST requests, accepted or refused, the
\* identifiers of the stored listings are pairwise distinct, the k-th
\* successful POST was given identifier k (in the stored record and in its 201
\* answer), and consecutive stored identifiers differ by exactly 1.
C1_SequentialIds ==
    /\ \A i, j \in 1..Len(listings) : i # j => listings[i].id # listings[j].id
    /\ Len(handled) = Len(listings)
    /\ \A r \in Requests :
          requests[r].state = "created" <=> \E k \in 1..Len(handled) : handled[k] = r
    /\ \A k \in 1..Len(handled) :
          /\ requests[handled[k]].json.id = k
          /\ listings[k].id = k
    /\ \A k \in 1..(Len(listings) - 1) : listings[k + 1].id = listings[k].id + 1

\* Two POSTs succeeded, with a GET answered between them.
C1_Witness ==
    /\ Len(listings) = 2
    /\ lastGet.status = 200
    /\ Len(lastGet.body) = 1

\* An attachment is JPEG or PNG when its extension is .jpg, .jpeg or .png (in
\* any case) and its declared media type is image/jpeg or image/png.
IsJpegOrPng(file) ==
    /\ ToLowerCase(ExtName(file.originalname)) \in
          { <<".","j","p","g">>, <<".","j","p","e","g">>, <<".","p","n","g">> }
    /\ file.mimetype \in { <<"i","m","a","g","e","/","j","p","e","g">>,
                           <<"i","m","a","g","e","/","p","n","g">> }
HasDisallowedType(files) == \E i \in 1..Len(files) : ~IsJpegOrPng(files[i])

\* C2: a POST with at least one attachment that is not JPEG/PNG, at whatever
\* position, ends with an error and leaves the listings as they were.
C2_DisallowedTypeRejected ==
    [][\A r \in Requests :
          (/\ requests[r].state = "uploading"
           /\ requests'[r].state # "uploading"
           /\ HasDisallowedType(requests[r].files))
          => (requests'[r].state = "error" /\ listings' = listings)]_vars

\* What the claim says a numeric field is stored as: the integer its text
\* parses to, and unset only when it is absent or does not parse.
StoredInteger(x) == IF ParseInt(x).t = "number" THEN ParseInt(x) ELSE Undefined

\* C3: in a successful POST each of age, weight and price is stored as the
\* integer the submitted text parses to (0 and negative values included), and
\* as unset only when the field is absent or does not parse.
C3_IntegerFieldsStored ==
    [][\A r \in Requests :
          (requests[r].state = "uploading" /\ requests'[r].state = "created")
          => /\ listings'[Len(listings')].age = StoredInteger(requests[r].body.age)
             /\ listings'[Len(listings')].weight = StoredInteger(requests[r].body.weight)
             /\ listings'[Len(listings')].price = StoredInteger(requests[r].body.price)]_vars

\* C10: whatever the order in which the uploads of concurrent POSTs complete,
\* no two answers carry the same identifier, the identifiers grow in the order
\* in which the handlers ran, and each handler's record is the one stored at
\* its place.
C10_IdsFollowHandlerOrder ==
    /\ \A i, j \in 1..Len(handled) :
          i < j => requests[handled[i]].json.id < requests[handled[j]].json.id
    /\ \A r, q \in Requests :
          (r # q /\ requests[r].state = "created" /\ requests[q].state = "created")
          => requests[r].json.id # requests[q].json.id
    /\ \A k \in 1..Len(handled) :
          k <= Len(listings) /\ listings[k] = requests[handled[k]].json

\* The request that arrived second had its handler run first, and both stored
\* a listing.
C10_Witness ==
    /\ Len(handled) = 2
    /\ handled[1] > handled[2]
    /\ Len(listings) = 2

\* ------------------------------------------------------------------------
\* Properties of the Payments view (checked under SpecPayments, and C5 under
\* FairSpecPayments)
\* ------------------------------------------------------------------------

\* The length of the run of equal elements that ends a non-empty sequence.
TrailingRun(s) ==
    LET differing == {i \in 1..Len(s) : s[i] # s[Len(s)]}
    IN Len(s) - (IF differing = {} THEN 0
                 ELSE CHOOSE i \in differing : \A j \in differing : j <= i)

\* C4: after any sequence of header clicks from the initial state (no column,
\* ascending) the active column is the last one clicked and the direction is
\* ascending exactly when the run of clicks on it that ends the sequence has
\* odd length.
C4_SortState ==
    IF clicks = <<>>
    THEN sortColumn = "null" /\ sortDirection = "asc"
    ELSE /\ sortColumn = clicks[Len(clicks)]
         /\ (sortDirection = "asc") <=> (TrailingRun(clicks) % 2 = 1)

\* The specification's example: another column, then "amount" twice, shows
\* A(100) before B(50).
C4_Witness ==
    /\ clicks = <<"buyer", "amount", "amount">>
    /\ sortColumn = "amount" /\ sortDirection = "desc"
    /\ searchTerm = <<>>
    /\ Len(sortedPayments) = 2
    /\ sortedPayments[1].amount = 100 /\ sortedPayments[2].amount = 50

\* C5: the loading indicator is on from the mount until fetchPayments has
\* resumed; when the fetch is rejected the view is, whenever fetchPayments has
\* ended, not loading with no payments and one error notification, and it
\* does get there.
C5_FetchFailure ==
    /\ [](fetchState # "done" => isLoading)
    /\ []((fetchState = "done" /\ response.kind = "rejected")
            => (~isLoading /\ payments = <<>> /\ toasts = 1))
    /\ ((response.kind = "rejected")
            ~> (fetchState = "done" /\ ~isLoading /\ payments = <<>> /\ toasts = 1))

\* The fetch failed and the user has typed in the search input since.
C5_Witness ==
    /\ response.kind = "rejected"
    /\ fetchState = "done"
    /\ ~isLoading
    /\ toasts = 1
    /\ searchTerm # <<>>

\* C6: a payment is in the search result exactly when the lower-cased term is
\* part of its lower-cased buyer, seller, order identifier or payment method;
\* the empty term keeps every payment.
C6_SearchResult ==
    LET found == filteredPayments
        term == ToLowerCase(searchTerm)
    IN /\ \A i \in 1..Len(payments) :
             (\E j \in 1..Len(found) : found[j] = payments[i])
             <=> \/ /\ payments[i].buyer.t = "string"
                    /\ Includes(ToLowerCase(payments[i].buyer.v), term)
                 \/ /\ payments[i].seller.t = "string"
                    /\ Includes(ToLowerCase(payments[i].seller.v), term)
                 \/ Includes(ToLowerCase(payments[i].orderId), term)
                 \/ Includes(ToLowerCase(payments[i].paymentMethod), term)
       /\ Len(found) <= Len(payments)
       /\ searchTerm = <<>> => found = payments

\* A term in mixed case finds one payment by its order identifier alone, among
\* payments of which one came without buyer and seller.
C6_Witness ==
    /\ searchTerm = <<"o","r","d","-","A">>
    /\ Len(payments) = 3
    /\ \E i \in 1..Len(response.data.v) :
          response.data.v[i].buyer = Null /\ response.data.v[i].seller = Null
    /\ Len(filteredPayments) = 1
    /\ filteredPayments[1].orderId = <<"O","R","D","-","A","1">>

\* The places in a list of the payments of a status (in any case), and the
\* k-th of these places.
PlacesOfStatus(list, tab) ==
    {i \in 1..Len(list) : ToLowerCase(list[i].status) = tab}
KthPlace(places, k) ==
    CHOOSE i \in places : Cardinality({j \in places : j <= i}) = k

\* C7: the all-payments tab shows the searched-and-sorted payments, all of
\* them; each status tab shows, in that order, exactly those whose status is
\* the tab's name in any case.
C7_TabRows ==
    (~isLoading /\ payments # <<>>) =>
       LET sorted == sortedPayments
       IN /\ DisplayedRows(AllPaymentsTab) = sorted
          /\ \A tab \in Tabs \ {AllPaymentsTab} :
                LET rows == DisplayedRows(tab)
                    places == PlacesOfStatus(sorted, tab)
                IN /\ Len(rows) = Cardinality(places)
                   /\ \A k \in 1..Len(rows) : rows[k] = sorted[KthPlace(places, k)]

\* A sorted list in which a payment with status "Completed" is the completed
\* tab's only row, not the first of the list, and a payment with a status
\* that has no tab is a row of the all-payments tab.
C7_Witness ==
    /\ ~isLoading
    /\ sortColumn = "amount" /\ sortDirection = "desc"
    /\ Len(DisplayedRows(CompletedTab)) = 1
    /\ DisplayedRows(CompletedTab)[1].status = <<"C","o","m","p","l","e","t","e","d">>
    /\ DisplayedRows(AllPaymentsTab)[1].status = <<"r","e","f","u","n","d","e","d">>
    /\ Len(DisplayedRows(AllPaymentsTab)) = 3

\* C8: whatever was searched and sorted, the all-payments count is the size of
\* the fetched collection and each status tab's count is the number of fetched
\* payments of that status in any case.
C8_TabCounts ==
    (fetchState = "done" /\ response.kind = "fulfilled" /\ response.data.t = "array") =>
       /\ TabCount(AllPaymentsTab) = Len(response.data.v)
       /\ \A tab \in Tabs \ {AllPaymentsTab} :
             TabCount(tab) =
                Cardinality({i \in 1..Len(response.data.v) :
                                ToLowerCase(response.data.v[i].status) = tab})

\* After a search and a sort, a tab counts more payments than it shows.
C8_Witness ==
    /\ ~isLoading /\ payments # <<>>
    /\ searchTerm # <<>>
    /\ sortColumn # "null"
    /\ TabCount(CompletedTab) = 1
    /\ DisplayedRows(CompletedTab) = <<>>
    /\ TabCount(AllPaymentsTab) > Len(DisplayedRows(AllPaymentsTab))

\* C9: once fetchPayments has ended, no step changes the fetched payments.
C9_FetchedUnchanged ==
    [][fetchState = "done" => payments' = payments]_vars

\* The fetched payments are still those of the response after a search, a
\* sort and a tab selection that make the displayed list differ from them.
C9_Witness ==
    /\ fetchState = "done"
    /\ response.kind = "fulfilled" /\ response.data.t = "array"
    /\ payments = TransformedPayments(response.data.v)
    /\ searchTerm # <<>>
    /\ clicks # <<>>
    /\ activeTab # AllPaymentsTab
    /\ sortedPayments # payments
    /\ sortedPayments # <<>>

====
